---- MODULE Spec2Model ----
(***************************************************************************)
(* tinyLM, main.py: the hyperparameter sweep that trains one model per     *)
(* grid combination and keeps the best one by validation loss.             *)
(*                                                                         *)
(* Units.  Learning rates are in units of 1e-4 (2e-4 is 2, 5e-4 is 5).     *)
(* Losses are in units of 0.1 nat, perplexities in units of 0.001.         *)
(* float('inf') is the value Inf, None is the value None.                  *)
(* Strings that the code inspects (model_type) or builds (checkpoint       *)
(* paths) are sequences of one-character strings.                          *)
(***************************************************************************)
EXTENDS Integers, Sequences, FiniteSets, TLC

\* ------------------------------------------------------------------ bounds
\* Training-length settings of the default profiles, scaled down so that a
\* whole twelve-run sweep can be explored (main.py has 50000, 5, 2000, 1000
\* and, in the callback, 5000).
MaxIters == 8
Patience == 2
ValidationIntervalFF == 2
ValidationIntervalGPT == 1
CkptInterval == 3
\* vocabulary size of the training split, the longest validation split and
\* the largest context length explored for get_val_dataset on its own
VocabSize == 2
MaxValLen == 4
MaxBlockSize == 3

\* validation losses a check can measure: during the sweep, and (finer) for
\* a single Trainer run
LossSet == {36, 40}
FineLossSet == {36, 38, 39, 40}

\* ------------------------------------------------------- program constants
block_size == 10
seed == 3407
MinRelImprovementPct == 5
DefaultLearningRate == 5

learning_rates == <<2, 3>>
hidden_dims == <<200, 300, 400>>
n_embds == <<48, 96>>

Inf == -1
None == 0

FEEDFORWARD == <<"f", "e", "e", "d", "f", "o", "r", "w", "a", "r", "d">>
GPT_PREFIX == <<"g", "p", "t">>
GPT_NANO == <<"g", "p", "t", "-", "n", "a", "n", "o">>
RNN == <<"r", "n", "n">>
NoType == << >>
work_dir == <<".", "/", "o", "u", "t", "/", "c", "h", "a", "r", "g", "p", "t">>

\* model_type values Feedforward.get_default_config() may carry
ModelTypeInputs == {FEEDFORWARD, RNN, <<"g", "p">>}

VARIABLES
    pc,              \* position of the main script
    error,           \* the exception that ended the program, or "none"
    args_model,      \* args.model
    ff_model_type,   \* model_type of Feedforward.get_default_config()
    data_config,     \* data_config
    val_data,        \* val_data (indices of the validation split)
    train_dataset,   \* what train() reads of train_dataset
    val_dataset,     \* val_dataset = (inputs, targets)
    run_idx,         \* loop variable run_idx
    hyps,            \* loop variables (learning_rate, hidden_dim, n_embd)
    config,          \* the run's config
    model,           \* the run's model object (an object identity)
    heap_count,      \* number of model objects constructed so far
    trainer_cfg,     \* config bound by the Trainer
    trainer_state,   \* "none", "RUNNING", "CONVERGED", "MAX_ITERS_REACHED"
    iter_num,        \* Trainer: iteration counter
    t_best,          \* Trainer: best validation loss seen
    t_count,         \* Trainer: consecutive non-improving validations
    t_history,       \* validation losses measured in this run, in order
    val_loss,        \* values returned by train()
    val_perplexity,
    best_model, best_val_loss, best_val_perplexity, best_hyps,
    files,           \* checkpoint files: path -> content
    ckpt_writes,     \* paths this run's callback has written, in order
    run_losses, run_perps, run_models,  \* per finished run: what train() returned
    summary          \* the lines printed by the final print

vars == <<pc, error, args_model, ff_model_type, data_config, val_data,
          train_dataset, val_dataset, run_idx, hyps, config, model,
          heap_count, trainer_cfg, trainer_state, iter_num, t_best, t_count,
          t_history, val_loss, val_perplexity, best_model, best_val_loss,
          best_val_perplexity, best_hyps, files, ckpt_writes, run_losses,
          run_perps, run_models, summary>>

\* ------------------------------------------------------------------ helpers
Max(a, b) == IF a >= b THEN a ELSE b
Min(a, b) == IF a <= b THEN a ELSE b

\* s[a:b] of Python for 0 <= a, 0 <= b
PySlice(s, a, b) ==
    LET hi == Min(b, Len(s))
    IN  IF a >= hi THEN << >> ELSE SubSeq(s, a + 1, hi)

\* s.startswith(p)
StartsWith(s, p) == Len(s) >= Len(p) /\ SubSeq(s, 1, Len(p)) = p

\* a < b on floats with infinity
Lt(a, b) == IF a = Inf THEN FALSE ELSE IF b = Inf THEN TRUE ELSE a < b

\* all sequences over S of length at most n
RECURSIVE SeqsUpTo(_, _)
SeqsUpTo(S, n) ==
    IF n = 0 THEN {<< >>}
    ELSE LET shorter == SeqsUpTo(S, n - 1)
         IN  shorter \cup {Append(s, x) : s \in {t \in shorter : Len(t) = n - 1}, x \in S}

\* a validation split of length n (the corpus is an input)
Corpus(n) == [i \in 1..n |-> i % VocabSize]

\* ---------------------------------------------------------- get_val_dataset
RECURSIVE ValWindowsFrom(_, _, _, _)
ValWindowsFrom(bs, data, idx, n) ==
    IF idx >= n THEN <<<< >>, << >>>>
    ELSE LET rest == ValWindowsFrom(bs, data, idx + 1, n)
         IN  << <<PySlice(data, idx, idx + bs)>> \o rest[1],
                <<PySlice(data, idx + 1, idx + bs + 1)>> \o rest[2] >>

get_val_dataset_off_by_one(dc, data) ==
    ValWindowsFrom(dc.block_size, data, 0, Len(data) - dc.block_size + 1)

get_val_dataset(dc, data) ==
    ValWindowsFrom(dc.block_size, data, 0, Len(data) - dc.block_size)

\* ------------------------------------------------------- default profiles
TrainerProfile_lenient(interval) ==
    [device |-> "auto", num_workers |-> 4, max_iters |-> MaxIters,
     batch_size |-> 64, learning_rate |-> DefaultLearningRate,
     betas |-> <<90, 95>>, weight_decay |-> 10, grad_norm_clip |-> 100,
     patience |-> Patience + 1, validation_interval |-> interval,
     min_relative_improvement |-> MinRelImprovementPct]

\* C.trainer of both profiles; they differ in validation_interval only
TrainerProfile(interval) ==
    [device |-> "auto", num_workers |-> 4, max_iters |-> MaxIters,
     batch_size |-> 64, learning_rate |-> DefaultLearningRate,
     betas |-> <<90, 95>>, weight_decay |-> 10, grad_norm_clip |-> 100,
     patience |-> Patience, validation_interval |-> interval,
     min_relative_improvement |-> MinRelImprovementPct]

\* a CfgNode for C.model whose grid and dataset fields are not set yet
ModelProfile(type) ==
    [model_type |-> type, learning_rate |-> None, hidden_dim |-> None,
     n_embd |-> None, vocab_size |-> None, block_size |-> None]

Profile(type, interval) ==
    [system |-> [seed |-> seed, work_dir |-> work_dir],
     model |-> ModelProfile(type),
     trainer |-> TrainerProfile(interval),
     vocab_size |-> None, block_size |-> None]

\* the config before the loop has built one
NoConfig == Profile(NoType, 0)

get_ff_config_shared ==
    IF config = NoConfig THEN Profile(ff_model_type, ValidationIntervalFF) ELSE config

get_ff_config == Profile(ff_model_type, ValidationIntervalFF)

get_gpt_config == Profile(GPT_NANO, ValidationIntervalGPT)

\* itertools.product(learning_rates, hidden_dims, n_embds): last axis fastest
GridSize == Len(learning_rates) * Len(hidden_dims) * Len(n_embds)

hyperparameters_list ==
    [k \in 1..GridSize |->
        << learning_rates[((k - 1) \div (Len(hidden_dims) * Len(n_embds))) + 1],
           hidden_dims[(((k - 1) \div Len(n_embds)) % Len(hidden_dims)) + 1],
           n_embds[((k - 1) % Len(n_embds)) + 1] >>]

\* lines 198-200: the grid overrides
ApplyOverrides(cfg, h) ==
    [cfg EXCEPT !.model.learning_rate = h[1],
                !.model.hidden_dim = h[2],
                !.model.n_embd = h[3]]

\* --------------------------------------------------------------- train()
\* which constructor lines 109-114 run; "unbound" leaves `model` unassigned
ModelKind_defaulting(type) ==
    IF StartsWith(type, GPT_PREFIX) THEN "gpt" ELSE "feedforward"

ModelKind(type) ==
    IF type = FEEDFORWARD THEN "feedforward"
    ELSE IF StartsWith(type, GPT_PREFIX) THEN "gpt"
    ELSE "unbound"

\* lines 107-108 and 112-113: dataset sizes injected into the config
InjectSizes(cfg, ds) ==
    LET c1 == [cfg EXCEPT !.model.vocab_size = ds.vocab_size,
                          !.model.block_size = ds.block_size]
    IN  IF ModelKind(c1.model.model_type) = "gpt"
        THEN [c1 EXCEPT !.vocab_size = ds.vocab_size, !.block_size = ds.block_size]
        ELSE c1

\* str(n) for n >= 0
Digit(d) == <<"0", "1", "2", "3", "4", "5", "6", "7", "8", "9">>[d + 1]

RECURSIVE Str(_)
Str(n) == IF n < 10 THEN <<Digit(n)>> ELSE Str(n \div 10) \o <<Digit(n % 10)>>

\* os.path.join(a, b) for a relative b
PathJoin(a, b) ==
    IF a = << >> \/ a[Len(a)] = "/" THEN a \o b ELSE a \o <<"/">> \o b

ckpt_path_shared(cfg, idx) ==
    PathJoin(cfg.system.work_dir, <<"m", "o", "d", "e", "l", ".", "p", "t">>)

\* line 139
ckpt_path(cfg, idx) ==
    PathJoin(cfg.system.work_dir,
             <<"m", "o", "d", "e", "l", "_">> \o Str(idx) \o <<".", "p", "t">>)

\* lines 126-142 of batch_end_callback, as far as they change files
FilesAfterCallback(n) ==
    IF n % CkptInterval = 0
    THEN LET path == ckpt_path(config, run_idx)
         IN  [p \in (DOMAIN files) \cup {path} |->
                 IF p = path THEN [run |-> run_idx, model |-> model] ELSE files[p]]
    ELSE files

WritesAfterCallback(n) ==
    IF n % CkptInterval = 0
    THEN Append(ckpt_writes, ckpt_path(config, run_idx))
    ELSE ckpt_writes

\* --------------------------------------------------------------- Trainer
\* exp(x / 10) in thousandths, by repeated multiplication with exp(0.1)
RECURSIVE ExpMilli(_)
ExpMilli(n) == IF n = 0 THEN 1000 ELSE (ExpMilli(n - 1) * 1105) \div 1000

exp(x) == IF x = Inf THEN Inf ELSE ExpMilli(x)

\* the validation set has no window
NoWindows(vd) == Len(vd[1]) = 0

\* (best - new) / best >= threshold; any loss improves on no loss at all
Improves(best, new, pct) ==
    IF best = Inf THEN TRUE ELSE (best - new) * 100 >= pct * best

CounterAfter(best, count, new, pct) ==
    IF Improves(best, new, pct) THEN 0 ELSE count + 1

BestAfter(best, new, pct) ==
    IF Improves(best, new, pct) THEN new ELSE best

\* ------------------------------------------------------------ sweep record
IsBetter_or_equal(new_loss, best_loss) == ~Lt(best_loss, new_loss)

\* line 203
IsBetter(new_loss, best_loss) == Lt(new_loss, best_loss)

RecordAfter_partial(old, new) ==
    IF IsBetter(new[2], old[2]) THEN <<new[1], new[2], old[3], new[4]>> ELSE old

\* lines 203-207 on the record (model, loss, perplexity, hyps)
RecordAfter(old, new) ==
    IF IsBetter(new[2], old[2]) THEN new ELSE old

\* ------------------------------------------------------------------ states
\* lengths of the validation split explored for the whole program
SweepValLens == {0, block_size, block_size + 2}

\* everything the script has not assigned yet
Unassigned ==
    /\ error = "none"
    /\ run_idx = 0
    /\ hyps = << >>
    /\ config = NoConfig
    /\ model = None
    /\ heap_count = 0
    /\ trainer_cfg = TrainerProfile(0)
    /\ trainer_state = "none"
    /\ iter_num = 0
    /\ t_best = Inf
    /\ t_count = 0
    /\ t_history = << >>
    /\ val_loss = Inf
    /\ val_perplexity = Inf
    /\ best_model = None
    /\ best_val_loss = Inf
    /\ best_val_perplexity = Inf
    /\ best_hyps = << >>
    /\ files = [p \in {} |-> None]
    /\ ckpt_writes = << >>
    /\ run_losses = << >>
    /\ run_perps = << >>
    /\ run_models = << >>
    /\ summary = << >>

\* the program at line 159, for each command line and corpus
Init ==
    /\ pc = "start"
    /\ args_model \in {"feedforward", "gpt"}
    /\ ff_model_type \in IF args_model = "feedforward" THEN ModelTypeInputs ELSE {FEEDFORWARD}
    /\ data_config = [block_size |-> block_size]
    /\ val_data \in {Corpus(n) : n \in SweepValLens}
    /\ train_dataset = [vocab_size |-> None, block_size |-> None]
    /\ val_dataset = <<<< >>, << >>>>
    /\ Unassigned

\* lines 159-187: datasets built, the record initialised
Main_Setup ==
    /\ pc = "start"
    /\ train_dataset' = [vocab_size |-> VocabSize, block_size |-> data_config.block_size]
    /\ val_dataset' = get_val_dataset(data_config, val_data)
    /\ best_model' = None
    /\ best_val_loss' = Inf
    /\ best_val_perplexity' = Inf
    /\ best_hyps' = << >>
    /\ pc' = "loop"
    /\ UNCHANGED <<error, args_model, ff_model_type, data_config, val_data,
                   run_idx, hyps, config, model, heap_count, trainer_cfg,
                   trainer_state, iter_num, t_best, t_count, t_history,
                   val_loss, val_perplexity, files, ckpt_writes, run_losses,
                   run_perps, run_models, summary>>

\* lines 189-200: the next grid combination, its fresh config and overrides
Sweep_Next ==
    /\ pc = "loop"
    /\ Len(run_losses) < GridSize
    /\ run_idx' = Len(run_losses)
    /\ hyps' = hyperparameters_list[Len(run_losses) + 1]
    /\ config' = ApplyOverrides(IF args_model = "feedforward" THEN get_ff_config
                                ELSE get_gpt_config, hyps')
    /\ pc' = "train"
    /\ UNCHANGED <<error, args_model, ff_model_type, data_config, val_data,
                   train_dataset, val_dataset, model, heap_count, trainer_cfg,
                   trainer_state, iter_num, t_best, t_count, t_history,
                   val_loss, val_perplexity, best_model, best_val_loss,
                   best_val_perplexity, best_hyps, files, ckpt_writes,
                   run_losses, run_perps, run_models, summary>>

\* lines 101-118 and 144: sizes injected, model and Trainer constructed.
\* With no branch taken, line 118 reads the unassigned `model` and raises
\* before Trainer is called.  The Trainer refuses a validation set without
\* windows.
Train_Setup ==
    /\ pc = "train"
    /\ config' = InjectSizes(config, train_dataset)
    /\ IF ModelKind(config.model.model_type) = "unbound"
       THEN /\ pc' = "error"
            /\ error' = "UnboundLocalError"
            /\ UNCHANGED <<model, heap_count, trainer_cfg, trainer_state,
                           iter_num, t_best, t_count, t_history, ckpt_writes>>
       ELSE /\ model' = heap_count + 1
            /\ heap_count' = heap_count + 1
            /\ IF NoWindows(val_dataset)
               THEN /\ pc' = "error"
                    /\ error' = "empty validation set"
                    /\ UNCHANGED <<trainer_cfg, trainer_state, iter_num,
                                   t_best, t_count, t_history, ckpt_writes>>
               ELSE /\ pc' = "running"
                    /\ error' = error
                    /\ trainer_cfg' = config'.trainer
                    /\ trainer_state' = "RUNNING"
                    /\ iter_num' = 0
                    /\ t_best' = Inf
                    /\ t_count' = 0
                    /\ t_history' = << >>
                    /\ ckpt_writes' = << >>
    /\ UNCHANGED <<args_model, ff_model_type, data_config, val_data,
                   train_dataset, val_dataset, run_idx, hyps, val_loss,
                   val_perplexity, best_model, best_val_loss,
                   best_val_perplexity, best_hyps, files, run_losses,
                   run_perps, run_models, summary>>

\* the end of an iteration: stop or go on; a stopped run returns to line 202
\* with the best validation loss and its perplexity
Trainer_Outcome(n, best, count) ==
    IF count >= trainer_cfg.patience \/ n >= trainer_cfg.max_iters
    THEN /\ trainer_state' = (IF count >= trainer_cfg.patience
                              THEN "CONVERGED" ELSE "MAX_ITERS_REACHED")
         /\ val_loss' = best
         /\ val_perplexity' = exp(best)
         /\ pc' = "returned"
    ELSE /\ UNCHANGED <<trainer_state, val_loss, val_perplexity, pc>>

\* one iteration of Trainer.run with no validation due: optimizer step,
\* counter, callback (line 121-142)
Trainer_Iterate ==
    /\ pc = "running"
    /\ (iter_num + 1) % trainer_cfg.validation_interval # 0
    /\ iter_num' = iter_num + 1
    /\ files' = FilesAfterCallback(iter_num + 1)
    /\ ckpt_writes' = WritesAfterCallback(iter_num + 1)
    /\ Trainer_Outcome(iter_num + 1, t_best, t_count)
    /\ UNCHANGED <<error, args_model, ff_model_type, data_config, val_data,
                   train_dataset, val_dataset, run_idx, hyps, config, model,
                   heap_count, trainer_cfg, t_best, t_count, t_history,
                   best_model, best_val_loss, best_val_perplexity, best_hyps,
                   run_losses, run_perps, run_models, summary>>

\* one iteration of Trainer.run that ends with a validation measuring a
\* loss of Losses
Trainer_IterateValidate(Losses) ==
    /\ pc = "running"
    /\ (iter_num + 1) % trainer_cfg.validation_interval = 0
    /\ iter_num' = iter_num + 1
    /\ files' = FilesAfterCallback(iter_num + 1)
    /\ ckpt_writes' = WritesAfterCallback(iter_num + 1)
    /\ \E l \in Losses :
          /\ t_history' = Append(t_history, l)
          /\ t_best' = BestAfter(t_best, l, trainer_cfg.min_relative_improvement)
          /\ t_count' = CounterAfter(t_best, t_count, l,
                                     trainer_cfg.min_relative_improvement)
          /\ Trainer_Outcome(iter_num + 1, t_best', t_count')
    /\ UNCHANGED <<error, args_model, ff_model_type, data_config, val_data,
                   train_dataset, val_dataset, run_idx, hyps, config, model,
                   heap_count, trainer_cfg, best_model, best_val_loss,
                   best_val_perplexity, best_hyps, run_losses, run_perps,
                   run_models, summary>>

\* lines 202-207: train() has returned; the record is kept or replaced
Sweep_Compare ==
    /\ pc = "returned"
    /\ LET rec == RecordAfter(
                    <<best_model, best_val_loss, best_val_perplexity, best_hyps>>,
                    <<model, val_loss, val_perplexity, hyps>>)
       IN  /\ best_model' = rec[1]
           /\ best_val_loss' = rec[2]
           /\ best_val_perplexity' = rec[3]
           /\ best_hyps' = rec[4]
    /\ run_losses' = Append(run_losses, val_loss)
    /\ run_perps' = Append(run_perps, val_perplexity)
    /\ run_models' = Append(run_models, model)
    /\ pc' = "loop"
    /\ UNCHANGED <<error, args_model, ff_model_type, data_config, val_data,
                   train_dataset, val_dataset, run_idx, hyps, config, model,
                   heap_count, trainer_cfg, trainer_state, iter_num, t_best,
                   t_count, t_history, val_loss, val_perplexity, files,
                   ckpt_writes, summary>>

\* line 209: the final print, with the loop variables as they were left
Summary_Line ==
    [perplexity |-> best_val_perplexity, loss |-> best_val_loss,
     learning_rate |-> hyps[1], hidden_dim |-> hyps[2], embed_dim |-> hyps[3]]

Main_Summary ==
    /\ pc = "loop"
    /\ Len(run_losses) = GridSize
    /\ summary' = Append(summary, Summary_Line)
    /\ pc' = "done"
    /\ UNCHANGED <<error, args_model, ff_model_type, data_config, val_data,
                   train_dataset, val_dataset, run_idx, hyps, config, model,
                   heap_count, trainer_cfg, trainer_state, iter_num, t_best,
                   t_count, t_history, val_loss, val_perplexity, best_model,
                   best_val_loss, best_val_perplexity, best_hyps, files,
                   ckpt_writes, run_losses, run_perps, run_models>>

Next ==
    \/ Main_Setup
    \/ Sweep_Next
    \/ Train_Setup
    \/ Trainer_Iterate
    \/ Trainer_IterateValidate(LossSet)
    \/ Sweep_Compare
    \/ Main_Summary

Spec == Init /\ [][Next]_vars

\* get_val_dataset on its own: every short validation split and context
\* length, then lines 159-187
InitVal ==
    /\ pc = "start"
    /\ args_model = "feedforward"
    /\ ff_model_type = FEEDFORWARD
    /\ data_config \in {[block_size |-> b] : b \in 1..MaxBlockSize}
    /\ val_data \in SeqsUpTo(0..(VocabSize - 1), MaxValLen)
    /\ train_dataset = [vocab_size |-> None, block_size |-> None]
    /\ val_dataset = <<<< >>, << >>>>
    /\ Unassigned

NextVal == Main_Setup

SpecVal == InitVal /\ [][NextVal]_vars

\* one Trainer run on its own: the program as lines 159-187 leave it, then
\* the first run of the sweep with the finer validation losses
InitTrainer ==
    /\ pc = "loop"
    /\ args_model \in {"feedforward", "gpt"}
    /\ ff_model_type = FEEDFORWARD
    /\ data_config = [block_size |-> block_size]
    /\ val_data = Corpus(block_size + 2)
    /\ train_dataset = [vocab_size |-> VocabSize, block_size |-> data_config.block_size]
    /\ val_dataset = get_val_dataset(data_config, val_data)
    /\ Unassigned

NextTrainer ==
    \/ Sweep_Next
    \/ Train_Setup
    \/ Trainer_Iterate
    \/ Trainer_IterateValidate(FineLossSet)

SpecTrainer == InitTrainer /\ [][NextTrainer]_vars

\* ==================================================================== claims
\* the record (model, loss, perplexity, hyps) as lines 184-187 set it
RecordIsInitial ==
    /\ best_model = None
    /\ best_val_loss = Inf
    /\ best_val_perplexity = Inf
    /\ best_hyps = << >>

\* the first run that attains the lowest of the losses ls
FirstMinimum(ls) ==
    CHOOSE i \in 1..Len(ls) :
        /\ \A j \in 1..Len(ls) : ~Lt(ls[j], ls[i])
        /\ \A j \in 1..(i - 1) : Lt(ls[i], ls[j])

\* C1: after runs 0..n-1 the record holds the lowest validation loss, and
\* the model and hyperparameters of the first run that attained it; a run
\* that only ties the best does not replace it.
C1_BestIsFirstMinimum ==
    IF \A i \in 1..Len(run_losses) : run_losses[i] = Inf
    THEN RecordIsInitial
    ELSE LET i == FirstMinimum(run_losses)
         IN  /\ best_val_loss = run_losses[i]
             /\ best_model = run_models[i]
             /\ best_hyps = hyperparameters_list[i]

\* the sweep is over, a later run has beaten an earlier one, and a still
\* later run has tied the winner
C1_Witness ==
    /\ pc = "done"
    /\ \E k, i, j \in 1..Len(run_losses) :
          /\ k < i /\ i < j
          /\ Lt(run_losses[i], run_losses[k])
          /\ run_losses[j] = run_losses[i]
          /\ best_model = run_models[i]

\* C2: the learning rate, hidden dim and embed dim on the summary line are
\* those of the run recorded as best.
C2_SummaryShowsWinner ==
    \A n \in 1..Len(summary) :
        <<summary[n].learning_rate, summary[n].hidden_dim, summary[n].embed_dim>>
            = best_hyps

\* C3: once run k has constructed its Trainer, the learning rate of the
\* Trainer's configuration is the learning rate of grid combination k.
C3_TrainerUsesGridLearningRate ==
    (pc = "running" \/ pc = "returned") =>
        trainer_cfg.learning_rate = hyperparameters_list[run_idx + 1][1]

\* the four fields of the record are those of one finished run, or initial
C5_FieldsFromOneRun ==
    \/ RecordIsInitial
    \/ \E i \in 1..Len(run_losses) :
          /\ best_model = run_models[i]
          /\ best_val_loss = run_losses[i]
          /\ best_val_perplexity = run_perps[i]
          /\ best_hyps = hyperparameters_list[i]

\* a step that changes the record follows a run's return and takes all four
\* fields from that run
C5_ChangedOnlyAfterReturn ==
    <<best_model, best_val_loss, best_val_perplexity, best_hyps>>'
        # <<best_model, best_val_loss, best_val_perplexity, best_hyps>>
    => /\ pc = "returned"
       /\ trainer_state \in {"CONVERGED", "MAX_ITERS_REACHED"}
       /\ best_model' = model
       /\ best_val_loss' = val_loss
       /\ best_val_perplexity' = val_perplexity
       /\ best_hyps' = hyps

\* C5: the four fields of the record come from one and the same finished
\* run (or are all initial), and the record changes only in the step that
\* follows a run's return, after its Trainer has reached a terminal state,
\* and then in all four fields together.
C5_RecordConsistent == [](C5_FieldsFromOneRun) /\ [][C5_ChangedOnlyAfterReturn]_vars

\* the record has been replaced by a run later than the first
C5_Witness ==
    /\ pc = "loop"
    /\ \E i \in 2..Len(run_losses) :
          best_model = run_models[i] /\ best_val_perplexity = run_perps[i]

\* C7: get_val_dataset returns max(0, len(val_data) - block_size) windows;
\* input and target of window idx have length block_size, the input is
\* val_data[idx .. idx+block_size-1] and the target is the input shifted
\* by one, ending with val_data[idx+block_size].
C7_WindowsShiftedByOne ==
    pc # "start" =>
        LET bs == data_config.block_size
            inputs == val_dataset[1]
            targets == val_dataset[2]
        IN  /\ Len(inputs) = Max(0, Len(val_data) - bs)
            /\ Len(targets) = Len(inputs)
            /\ \A w \in 1..Len(inputs) :
                  /\ Len(inputs[w]) = bs
                  /\ Len(targets[w]) = bs
                  /\ \A i \in 1..bs : inputs[w][i] = val_data[w - 1 + i]
                  /\ \A i \in 1..(bs - 1) : targets[w][i] = inputs[w][i + 1]
                  /\ targets[w][bs] = val_data[w + bs]

\* several windows of several positions have been built
C7_Witness ==
    /\ pc = "loop"
    /\ data_config.block_size >= 2
    /\ Len(val_dataset[1]) >= 2
    /\ \E i, j \in 1..Len(val_data) : val_data[i] # val_data[j]

\* C8: with len(val_data) <= block_size the program ends in an error at
\* Trainer construction and no training iteration of any run is executed.
C8_EmptyValidationIsFatal ==
    Len(val_data) <= data_config.block_size =>
        /\ iter_num = 0
        /\ trainer_state = "none"
        /\ files = [p \in {} |-> None]
        /\ pc \in {"start", "loop", "train", "error"}

\* a validation split of exactly block_size elements has stopped the program
C8_Witness ==
    /\ pc = "error"
    /\ error = "empty validation set"
    /\ Len(val_data) = data_config.block_size

\* the model_type of the selected variant's profile
SelectedModelType == IF args_model = "feedforward" THEN ff_model_type ELSE GPT_NANO

\* C10: with a model_type that is neither "feedforward" nor starts with
\* "gpt", train ends in an error before any Trainer is constructed or any
\* iteration runs, and no model of either variant is built.
C10_UnknownModelTypeIsFatal ==
    (SelectedModelType # FEEDFORWARD /\ ~StartsWith(SelectedModelType, GPT_PREFIX)) =>
        /\ heap_count = 0
        /\ model = None
        /\ trainer_state = "none"
        /\ iter_num = 0
        /\ pc \in {"start", "loop", "train", "error"}
        /\ pc = "error" => error = "UnboundLocalError"

\* a model_type that is a proper prefix of "gpt" has stopped the program
C10_Witness ==
    /\ pc = "error"
    /\ error = "UnboundLocalError"
    /\ config.model.model_type = <<"g", "p">>
    /\ Len(val_dataset[1]) > 0

\* the validation interval of the selected variant's profile
SelectedInterval ==
    IF args_model = "feedforward" THEN ValidationIntervalFF ELSE ValidationIntervalGPT

\* a check measuring new, against the best-so-far, improves enough
EnoughImprovement(best, new) ==
    best = Inf \/ (best - new) * 100 >= MinRelImprovementPct * best

\* best-so-far and length of the trailing non-improving streak after the
\* validation losses h
RECURSIVE BestOf(_)
BestOf(h) ==
    IF h = << >> THEN Inf
    ELSE LET before == BestOf(SubSeq(h, 1, Len(h) - 1))
         IN  IF EnoughImprovement(before, h[Len(h)]) THEN h[Len(h)] ELSE before

RECURSIVE StreakOf(_)
StreakOf(h) ==
    IF h = << >> THEN 0
    ELSE IF EnoughImprovement(BestOf(SubSeq(h, 1, Len(h) - 1)), h[Len(h)]) THEN 0
    ELSE StreakOf(SubSeq(h, 1, Len(h) - 1)) + 1

\* C4: a run is over exactly when its trailing streak of checks that improve
\* on the best-so-far by less than min_relative_improvement has reached
\* patience, or else when the iteration counter has reached max_iters; a
\* converged run stopped at the very iteration of the check that completed
\* the streak, and a sufficient improvement resets the counter to zero.
C4_StopsAtPatienceOrMaxIters ==
    trainer_state # "none" =>
        /\ Len(t_history) = iter_num \div SelectedInterval
        /\ t_count = StreakOf(t_history)
        /\ trainer_state = "RUNNING" =>
              /\ StreakOf(t_history) < Patience
              /\ iter_num < MaxIters
        /\ trainer_state = "CONVERGED" =>
              /\ StreakOf(t_history) = Patience
              /\ \A n \in 0..(Len(t_history) - 1) :
                    StreakOf(SubSeq(t_history, 1, n)) < Patience
              /\ iter_num = Len(t_history) * SelectedInterval
              /\ iter_num <= MaxIters
        /\ trainer_state = "MAX_ITERS_REACHED" =>
              /\ StreakOf(t_history) < Patience
              /\ iter_num = MaxIters
        /\ trainer_state # "RUNNING" => pc = "returned"

\* a run has converged before max_iters, after an improvement had reset a
\* streak that was already running
C4_Witness ==
    /\ trainer_state = "CONVERGED"
    /\ iter_num < MaxIters
    /\ \E n \in 2..Len(t_history) :
          /\ StreakOf(SubSeq(t_history, 1, n - 1)) > 0
          /\ StreakOf(SubSeq(t_history, 1, n)) = 0
          /\ t_history[n] < t_history[n - 1]

\* C6: the config a run enters train() with is the selected variant's
\* default profile with only this run's grid values set: nothing an earlier
\* run injected is in it; and the model its Trainer gets is no earlier
\* run's model.
C6_FreshConfigAndModel ==
    /\ pc = "train" =>
          /\ config.system = [seed |-> seed, work_dir |-> work_dir]
          /\ config.trainer = TrainerProfile(SelectedInterval)
          /\ config.model = [model_type |-> SelectedModelType,
                             learning_rate |-> hyperparameters_list[run_idx + 1][1],
                             hidden_dim |-> hyperparameters_list[run_idx + 1][2],
                             n_embd |-> hyperparameters_list[run_idx + 1][3],
                             vocab_size |-> None, block_size |-> None]
          /\ config.vocab_size = None
          /\ config.block_size = None
    /\ pc = "running" =>
          /\ \A j \in 1..Len(run_models) : model # run_models[j]
          /\ model # best_model

\* a later run is about to enter train() after earlier runs have injected
\* the dataset sizes into their configs and built their models
C6_Witness ==
    /\ pc = "train"
    /\ run_idx >= 2
    /\ Len(run_models) = run_idx
    /\ best_model # None

\* the path "<work_dir>/model_<k>.pt"
PathOfRun(k) ==
    work_dir \o <<"/", "m", "o", "d", "e", "l", "_">> \o Str(k) \o <<".", "p", "t">>

\* every write of the current run went to its path, and every file is at
\* the path of the run that wrote it
C9_OnePathPerRun ==
    /\ pc \in {"running", "returned"} =>
          \A i \in 1..Len(ckpt_writes) : ckpt_writes[i] = PathOfRun(run_idx)
    /\ \A p \in DOMAIN files : p = PathOfRun(files[p].run)

\* a step leaves the files of all runs but the current one as they were
C9_OthersUntouched ==
    \A p \in DOMAIN files :
        files[p].run # run_idx' => (p \in DOMAIN files' /\ files'[p] = files[p])

\* C9: every checkpoint write of run k goes to the one path that work_dir
\* and k determine, so a run leaves at most one file; and a write of run k
\* leaves the checkpoint of every other run as it was.
C9_CheckpointsKeyedByRun == [](C9_OnePathPerRun) /\ [][C9_OthersUntouched]_vars

\* a run with a two-digit index has overwritten its own checkpoint while
\* the checkpoints of the earlier runs exist
C9_Witness ==
    /\ run_idx >= 10
    /\ Len(ckpt_writes) >= 2
    /\ Cardinality(DOMAIN files) = run_idx + 1

====
